---- MODULE Spec2Model ----
(***************************************************************************)
(* Authentication and e-mail verification state machine of the CutnPaste   *)
(* API (src/server.py): register, verify_email, login, the OAuth session   *)
(* exchange (process_session) and credential resolution                    *)
(* (get_current_user), over the MongoDB collections users and              *)
(* user_sessions.  Every await on the database or on the identity provider *)
(* is one atomic step, so concurrent requests interleave between them.     *)
(* Time is counted in tenths of a second.                                  *)
(***************************************************************************)
EXTENDS Integers, Sequences, FiniteSets, TLC

VARIABLES
    now,            \* the wall clock, datetime.now(timezone.utc)
    users,          \* collection db.users: a set of documents
    sessions,       \* collection db.user_sessions: a set of documents
    req,            \* per request handler: where its coroutine is suspended, and its locals
    resp,           \* the HTTP response returned by the latest step, with its request
    held,           \* a bearer token a client kept from a response, with its issue time
    dollarFieldOk,  \* whether the store accepts the field name "$unset" inside $set
    tzAware,        \* how the driver hands back stored datetimes, once one has been read
    indexes,        \* how many create_index calls of startup_event may have succeeded
    loggedOut,      \* history: the credentials that successful logouts presented
    started         \* the number of requests received so far

vars == <<now, users, sessions, req, resp, held, dollarFieldOk, tzAware, indexes, loggedOut,
          started>>

----------------------------------------------------------------------------
(* Bounds of the model *)

MaxRequests == 3    \* requests received in one behaviour
MaxStep == 2        \* clock values are sums of at most MaxStep of: 0.5 s, 1 hour, 7 days
MaxDigit == 1       \* verification codes are drawn from 000000 .. MaxDigit repeated
NumExt == 2         \* external (Google) identities the provider can assert

Procs == {"h1", "h2"}                            \* request handlers
Emails == {"a@example.com", "b@example.com"}     \* addresses requests and the provider name
Registrants == {"a@example.com"}                 \* addresses that register with a password
Passwords == {"password123", "short"}            \* passwords of registrations
LoginPasswords == Passwords \cup {"wrongpass"}   \* passwords of logins
SessionTokens == {"st1", "st2"}                  \* session tokens the provider hands out

----------------------------------------------------------------------------
(* Program constants *)

CodeLen == 6                    \* range(6)
MinPasswordLen == 8             \* len(user_data.password) < 8
TicksPerSecond == 10            \* clock ticks in a second; a JWT NumericDate counts whole seconds
CodeTTL == 1 * 60 * 60 * TicksPerSecond             \* timedelta(hours=1)
TokenTTL == 7 * 24 * 60 * 60 * TicksPerSecond       \* timedelta(days=7), create_jwt_token
SessionTTL == 7 * 24 * 60 * 60 * TicksPerSecond     \* timedelta(days=7), process_session

\* the create_index calls of startup_event, in their order: an exception in one
\* skips those after it
EmailIndex == 1                 \* db.users.create_index("email", unique=True)
TokenIndex == 2                 \* db.user_sessions.create_index("session_token", unique=True)
TtlIndex == 3                   \* db.user_sessions.create_index("expires_at", expireAfterSeconds=0)

Instants ==
    { h * (TicksPerSecond \div 2) + c * CodeTTL + w * TokenTTL :
        <<h, c, w>> \in { t \in (0..MaxStep) \X (0..MaxStep) \X (0..MaxStep) :
                           t[1] + t[2] + t[3] <= MaxStep } }

\* the clock values of the session specifications: whole session lifetimes, and
\* half a second after each
SessionInstants ==
    { w * SessionTTL + h * (TicksPerSecond \div 2) : w \in 0..(MaxStep - 1), h \in 0..1 }

\* the clock values of the expiry specification: whole code lifetimes, and half a
\* second after each
CodeInstants ==
    { c * CodeTTL + h * (TicksPerSecond \div 2) : c \in 0..(MaxStep - 1), h \in 0..1 }

\* the clock values of the profile specification: whole session lifetimes
Weeks == { w * SessionTTL : w \in 0..(MaxStep - 1) }

Codes == { [i \in 1..CodeLen |-> d] : d \in 0..MaxDigit }
ExtIds == 1..NumExt

NoCode == << >>
NoTime == -1
NoId == <<"none", 0>>
NoHash == [alg |-> "none", pw |-> ""]
NoCred == [kind |-> "none", val |-> "", user_id |-> NoId, exp |-> NoTime]
Idle == [pc |-> "idle"]
NoName == << >>
NoRequest == [op |-> "none", email |-> "", password |-> "", code |-> NoCode,
              session_id |-> "", subject |-> 0, name |-> NoName,
              cookie |-> NoCred, header |-> NoCred]

----------------------------------------------------------------------------
(* Helper functions, lines 96-110 *)

\* bcrypt digest of a password; the random salt does not affect verification
hash_password(password) == [alg |-> "bcrypt", pw |-> password]

verify_password(password, hashed) == hashed = hash_password(password)

\* jwt.encode writes exp as a NumericDate: the datetime truncated to whole seconds
create_jwt_token(user_id, t) ==
    [kind |-> "jwt", val |-> "", user_id |-> user_id,
     exp |-> ((t + TokenTTL) \div TicksPerSecond) * TicksPerSecond]

\* a string that is no JWT signed with JWT_SECRET: an opaque session token
Opaque(s) == [kind |-> "opaque", val |-> s, user_id |-> NoId, exp |-> NoTime]

\* mutant of jwt_decode: the signature is checked, the exp claim is not
jwt_decode_without_exp(token, t) ==
    IF token.kind = "jwt" THEN token.user_id ELSE NoId

\* jwt.decode: the payload's user_id, or NoId on ExpiredSignatureError (exp <= now)
\* and on InvalidTokenError
jwt_decode(token, t) ==
    IF token.kind = "jwt" /\ token.exp > t THEN token.user_id ELSE NoId

----------------------------------------------------------------------------
(* The document store *)

\* the documents of db.users matching {"email": email}
FindByEmail(coll, email) == { u \in coll : u.email = email }

\* find_one over the matching documents: None, or one of them, whichever the store
\* comes to first
FindOne(matching) == IF matching = {} THEN {{}} ELSE { {d} : d \in matching }

\* db.users.find_one({"_id": id})
FindById(coll, id) == { u \in coll : u._id = id }

\* startup_event, lines 552-564: ping and the three create_index calls run in one try
\* block whose exception is logged and swallowed, so the application serves requests
\* with the first k of the indexes, k from 0 (the ping failed) to 3.  The run has one
\* k; indexes holds the values of k that agree with what the store has done so far.
\* The values left once index i has shown itself made, or not made
Narrowed(i, made) == { k \in indexes : (k >= i) = made }

\* index i can have been made, or not, as far as the run has shown
IndexOutcomes(i) == { made \in BOOLEAN : Narrowed(i, made) # {} }

\* the unique index on users.email, where startup_event made it: an insert of a
\* second document with the same email raises DuplicateKeyError
EmailIndexRejects(coll, doc) == \E u \in coll : u.email = doc.email

\* the unique index on user_sessions.session_token, where startup_event made it: a
\* write that would give a second document of coll the same token raises
\* DuplicateKeyError
TokenIndexRejects(coll, token) == \E s \in coll : s.session_token = token

\* secrets.token_urlsafe(16): an identifier no account and no request in flight has
FreshId ==
    LET used == { u._id : u \in users } \cup
                { req[q].doc._id : q \in { r \in Procs : req[r].pc = "register_insert" } }
        n == CHOOSE k \in 1..(Cardinality(Emails) + Cardinality(Procs) + 1) :
                 /\ <<"email", k>> \notin used
                 /\ \A j \in 1..(k - 1) : <<"email", j>> \in used
    IN  <<"email", n>>

\* a response: the request it answers, the clock value at which the handler read
\* the store for it, the HTTP status and detail, and the token and the account
\* identifier of the body
Response(request, at, status, detail, token, user_id) ==
    [request |-> request, at |-> at, status |-> status, detail |-> detail,
     token |-> token, user_id |-> user_id]

NoResponse == Response(NoRequest, NoTime, 0, "", NoCred, NoId)

\* the client may keep the bearer token of a response for its later requests
Keep(token, t) ==
    \/ held' = [token |-> token, iat |-> t]
    \/ UNCHANGED held

\* a request handler is free and the request is received
Receive(p) ==
    /\ req[p] = Idle
    /\ started < MaxRequests
    /\ started' = started + 1

----------------------------------------------------------------------------
(* POST /api/users/register, lines 322-371 *)

RegisterRequest(email, password) ==
    [NoRequest EXCEPT !.op = "register", !.email = email, !.password = password]

\* first_name and last_name of a registration; a name is the sequence of its words
RegistrantFirst == "Ann"
RegistrantLast == <<"Lee">>

\* the user document of lines 339-353; display_name is not given in the request
NewUserDoc(id, email, password, code, t) ==
    [_id |-> id, email |-> email, password |-> hash_password(password),
     first_name |-> RegistrantFirst, last_name |-> RegistrantLast,
     display_name |-> <<RegistrantFirst>> \o RegistrantLast,
     is_premium |-> FALSE, subscription_plan |-> "free",
     email_verified |-> FALSE, verification_code |-> code,
     verification_code_expires |-> t + CodeTTL, created_at |-> t,
     auth_provider |-> "email", dollar_unset |-> FALSE]

\* lines 327-353: the existence check, the password check, the new document
RegisterCheck(p, email, password) ==
    /\ Receive(p)
    /\ LET request == RegisterRequest(email, password) IN
       IF FindByEmail(users, email) # {}
       THEN /\ resp' = Response(request, now, 400, "Email already registered",
                                NoCred, NoId)
            /\ UNCHANGED req
       ELSE IF Len(password) < MinPasswordLen
       THEN /\ resp' = Response(request, now, 400,
                                "Password must be at least 8 characters", NoCred, NoId)
            /\ UNCHANGED req
       ELSE /\ \E code \in Codes :
                 req' = [req EXCEPT ![p] =
                            [pc |-> "register_insert", request |-> request, at |-> now,
                             doc |-> NewUserDoc(FreshId, email, password, code, now)]]
            /\ resp' = NoResponse
    /\ UNCHANGED <<now, users, sessions, held, dollarFieldOk, tzAware, indexes, loggedOut>>

\* lines 355-371: insert_one, the (mock) e-mail, the response
RegisterInsert(p) ==
    /\ req[p].pc = "register_insert"
    /\ LET doc == req[p].doc
           failed == /\ resp' = Response(req[p].request, req[p].at, 500,
                                         "Registration failed", NoCred, NoId)
                     /\ UNCHANGED users
           inserted ==
               /\ users' = users \cup {doc}
               /\ resp' = Response(req[p].request, req[p].at, 200,
                      "Registration successful. Please check your email for verification code.",
                      NoCred, doc._id)
       IN  IF EmailIndexRejects(users, doc)
           THEN \E made \in IndexOutcomes(EmailIndex) :
                   /\ indexes' = Narrowed(EmailIndex, made)
                   /\ IF made THEN failed ELSE inserted
           ELSE inserted /\ UNCHANGED indexes
    /\ req' = [req EXCEPT ![p] = Idle]
    /\ UNCHANGED <<now, sessions, held, dollarFieldOk, tzAware, loggedOut, started>>

----------------------------------------------------------------------------
(* POST /api/users/verify-email, lines 373-413 *)

VerifyRequest(email, code) ==
    [NoRequest EXCEPT !.op = "verify_email", !.email = email, !.code = code]

\* mutant of VerifyFilter: the filter does not look at the expiry
VerifyFilterWithoutExpiry(u, email, code, t) ==
    /\ u.email = email
    /\ u.verification_code = code

\* the filter of lines 377-381
VerifyFilter(u, email, code, t) ==
    /\ u.email = email
    /\ u.verification_code = code
    /\ u.verification_code_expires > t

\* mutant of VerifiedUpdate: the update leaves email_verified alone
VerifiedUpdateWithoutFlag(u) == [u EXCEPT !.dollar_unset = TRUE]

\* the update document of lines 389-397: $set of email_verified and of a field
\* literally named "$unset"; verification_code and its expiry are not operands of an
\* $unset operator and stay
VerifiedUpdate(u) == [u EXCEPT !.email_verified = TRUE, !.dollar_unset = TRUE]

\* lines 377-384
VerifyFind(p, email, code) ==
    /\ Receive(p)
    /\ LET found == { u \in users : VerifyFilter(u, email, code, now) } IN
       IF found = {}
       THEN /\ resp' = Response(VerifyRequest(email, code), now, 400,
                                "Invalid or expired verification code", NoCred, NoId)
            /\ UNCHANGED req
       ELSE /\ \E u \in found :
                 req' = [req EXCEPT ![p] =
                            [pc |-> "verify_update", request |-> VerifyRequest(email, code),
                             at |-> now, user_id |-> u._id]]
            /\ resp' = NoResponse
    /\ UNCHANGED <<now, users, sessions, held, dollarFieldOk, tzAware, indexes, loggedOut>>

\* lines 386-413: update_one, then the token
VerifyUpdate(p) ==
    /\ req[p].pc = "verify_update"
    /\ IF dollarFieldOk
       THEN /\ users' = { IF u._id = req[p].user_id THEN VerifiedUpdate(u) ELSE u :
                          u \in users }
            /\ resp' = Response(req[p].request, req[p].at, 200,
                                "Email verified successfully",
                                create_jwt_token(req[p].user_id, now), req[p].user_id)
            /\ Keep(create_jwt_token(req[p].user_id, now), now)
       ELSE \* the store raises WriteError on the $-prefixed field name
            /\ resp' = Response(req[p].request, req[p].at, 500,
                                "Email verification failed", NoCred, NoId)
            /\ UNCHANGED <<users, held>>
    /\ req' = [req EXCEPT ![p] = Idle]
    /\ UNCHANGED <<now, sessions, dollarFieldOk, tzAware, indexes, loggedOut, started>>

----------------------------------------------------------------------------
(* POST /api/users/login, lines 415-450 *)

LoginRequest(email, password) ==
    [NoRequest EXCEPT !.op = "login", !.email = email, !.password = password]

\* mutant of LoginResponse: no check of email_verified
LoginResponseWithoutHold(found, email, password, t) ==
    LET request == LoginRequest(email, password) IN
    IF found = {} \/ (\E u \in found : u.auth_provider # "email")
    THEN Response(request, t, 401, "Invalid credentials", NoCred, NoId)
    ELSE LET user == CHOOSE u \in found : TRUE IN
         IF ~verify_password(password, user.password)
         THEN Response(request, t, 401, "Invalid credentials", NoCred, NoId)
         ELSE Response(request, t, 200, "Login successful",
                       create_jwt_token(user._id, t), user._id)

\* mutant of LoginResponse: an account of another provider is told apart
LoginResponseRevealing(found, email, password, t) ==
    LET request == LoginRequest(email, password) IN
    IF found = {}
    THEN Response(request, t, 401, "Invalid credentials", NoCred, NoId)
    ELSE LET user == CHOOSE u \in found : TRUE IN
         IF user.auth_provider # "email"
         THEN Response(request, t, 400, "Use Google sign-in", NoCred, NoId)
         ELSE IF ~verify_password(password, user.password)
         THEN Response(request, t, 401, "Invalid credentials", NoCred, NoId)
         ELSE IF ~user.email_verified
         THEN Response(request, t, 400, "Please verify your email first", NoCred, NoId)
         ELSE Response(request, t, 200, "Login successful",
                       create_jwt_token(user._id, t), user._id)

\* lines 421-444 as a function of what find_one returned (found: no document, or
\* one), the request and the clock
LoginResponse(found, email, password, t) ==
    LET request == LoginRequest(email, password) IN
    IF found = {} \/ (\E u \in found : u.auth_provider # "email")
    THEN Response(request, t, 401, "Invalid credentials", NoCred, NoId)
    ELSE LET user == CHOOSE u \in found : TRUE IN
         IF ~verify_password(password, user.password)
         THEN Response(request, t, 401, "Invalid credentials", NoCred, NoId)
         ELSE IF ~user.email_verified
         THEN Response(request, t, 400, "Please verify your email first", NoCred, NoId)
         ELSE Response(request, t, 200, "Login successful",
                       create_jwt_token(user._id, t), user._id)

Login(p, email, password) ==
    /\ Receive(p)
    /\ \E found \in FindOne(FindByEmail(users, email)) :
          resp' = LoginResponse(found, email, password, now)
    /\ IF resp'.status = 200 THEN Keep(resp'.token, now) ELSE UNCHANGED held
    /\ UNCHANGED <<now, users, sessions, req, dollarFieldOk, tzAware, indexes, loggedOut>>

----------------------------------------------------------------------------
(* POST /api/auth/session, lines 212-296 *)

\* the request, with the identity (id, email) the provider asserts for its session
OAuthRequest(session_id, answer) ==
    [NoRequest EXCEPT !.op = "oauth_exchange", !.session_id = session_id,
                      !.subject = answer.id, !.email = answer.email,
                      !.name = answer.name]

\* what the identity provider's session-data endpoint can answer; it is not asked
\* when the request has no session id
NotAsked == [status |-> 0, id |-> 0, email |-> "", named |-> FALSE, name |-> NoName,
             session_token |-> ""]

\* the names the provider can assert: two words, one word, the empty string
Names == { <<"Ann", "Lee">>, <<"Ann">>, NoName }

\* the provider's answers with a name drawn from names; named is FALSE when the
\* answer's name is null
AnswersNamed(names) ==
    { [status |-> 401, id |-> 0, email |-> "", named |-> FALSE, name |-> NoName,
       session_token |-> ""] } \cup
    { [status |-> 200, id |-> i, email |-> e, named |-> TRUE, name |-> n,
       session_token |-> s] :
        i \in ExtIds, e \in Emails, n \in names, s \in SessionTokens }

ProviderAnswers == AnswersNamed({<<"Ann", "Lee">>})

\* session_data["name"].split()[0] if session_data["name"] else "User", line 238
FirstName(name) == IF name = NoName THEN "User" ELSE Head(name)

\* " ".join(session_data["name"].split()[1:]) if there are words after the first,
\* else "", line 239
LastName(name) == IF Len(name) > 1 THEN Tail(name) ELSE NoName

\* mutant of OAuthUserDoc: the account is created unverified
OAuthUserDocUnverified(session_data, t) ==
    [_id |-> <<"google", session_data.id>>, email |-> session_data.email,
     first_name |-> FirstName(session_data.name),
     last_name |-> LastName(session_data.name),
     display_name |-> session_data.name,
     is_premium |-> FALSE, subscription_plan |-> "free",
     password |-> NoHash, email_verified |-> FALSE, verification_code |-> NoCode,
     verification_code_expires |-> NoTime, created_at |-> t,
     auth_provider |-> "google", dollar_unset |-> FALSE]

\* the user document of lines 235-248; picture, which the User model does not have,
\* is left out
OAuthUserDoc(session_data, t) ==
    [_id |-> <<"google", session_data.id>>, email |-> session_data.email,
     first_name |-> FirstName(session_data.name),
     last_name |-> LastName(session_data.name),
     display_name |-> session_data.name,
     is_premium |-> FALSE, subscription_plan |-> "free",
     password |-> NoHash, email_verified |-> TRUE, verification_code |-> NoCode,
     verification_code_expires |-> NoTime, created_at |-> t,
     auth_provider |-> "google", dollar_unset |-> FALSE]

\* mutant of UpsertUser: an insert instead of an upsert
InsertUser(coll, doc) == coll \cup {doc}

\* mutant of UpsertUser: $set in the place of $setOnInsert
SetUser(coll, doc) == { u \in coll : u._id # doc._id } \cup {doc}

\* update_one({"_id": user_id}, {"$setOnInsert": user_doc}, upsert=True), lines 251-255
UpsertUser(coll, doc) ==
    IF FindById(coll, doc._id) # {} THEN coll ELSE coll \cup {doc}

\* a session document; created_at, which nothing reads, is left out.  The store
\* gives each document an _id of its own: copy tells apart the documents of coll
\* that are equal in every other field
SessionDoc(coll, user_id, token, expires_at) ==
    LET same == { s \in coll : /\ s.user_id = user_id /\ s.session_token = token
                               /\ s.expires_at = expires_at }
    IN  [user_id |-> user_id, session_token |-> token, expires_at |-> expires_at,
         copy |-> CHOOSE k \in 1..(Cardinality(same) + 1) : \A s \in same : s.copy # k]

\* update_one({"user_id": user_id}, {"$set": {...}}, upsert=True), lines 261-271, when
\* a document matches the filter: that one document is updated
UpdateSession(coll, old, token, expires_at) ==
    (coll \ {old}) \cup {SessionDoc(coll \ {old}, old.user_id, token, expires_at)}

\* the same call when no document matches: a document made of the filter and of $set
\* is inserted
InsertSession(coll, user_id, token, expires_at) ==
    coll \cup {SessionDoc(coll, user_id, token, expires_at)}

\* lines 294-296
OAuthFailed(request, at) ==
    Response(request, at, 500, "Session processing failed", NoCred, NoId)

\* lines 216-248: the request body, the provider call, the user document.  The
\* HTTPExceptions of lines 220 and 230 are raised inside the try block and reach the
\* handler of line 294, as does the AttributeError of line 239 on a null name
OAuthFetch(p, session_id, answer) ==
    /\ Receive(p)
    /\ IF session_id = "" \/ answer.status # 200 \/ ~answer.named
       THEN /\ resp' = OAuthFailed(OAuthRequest(session_id, answer), now)
            /\ UNCHANGED req
       ELSE /\ req' = [req EXCEPT ![p] =
                          [pc |-> "oauth_user", request |-> OAuthRequest(session_id, answer),
                           at |-> now, doc |-> OAuthUserDoc(answer, now),
                           session_token |-> answer.session_token]]
            /\ resp' = NoResponse
    /\ UNCHANGED <<now, users, sessions, held, dollarFieldOk, tzAware, indexes, loggedOut>>

\* lines 250-259: the upsert of the account, then the session's expiry
OAuthUpsertUser(p) ==
    /\ req[p].pc = "oauth_user"
    /\ LET doc == req[p].doc
           failed == /\ resp' = OAuthFailed(req[p].request, req[p].at)
                     /\ req' = [req EXCEPT ![p] = Idle]
                     /\ UNCHANGED users
           upserted ==
               /\ users' = UpsertUser(users, doc)
               /\ req' = [req EXCEPT ![p] =
                             [pc |-> "oauth_session", request |-> req[p].request,
                              at |-> req[p].at, user_id |-> doc._id,
                              session_token |-> req[p].session_token,
                              expires_at |-> now + SessionTTL]]
               /\ resp' = NoResponse
       IN  IF FindById(users, doc._id) = {} /\ EmailIndexRejects(users, doc)
           THEN \E made \in IndexOutcomes(EmailIndex) :
                   /\ indexes' = Narrowed(EmailIndex, made)
                   /\ IF made THEN failed ELSE upserted
           ELSE upserted /\ UNCHANGED indexes
    /\ UNCHANGED <<now, sessions, held, dollarFieldOk, tzAware, loggedOut, started>>

\* lines 261-271, the query phase of the upsert, and the update when a session of
\* the account matches; then the cookie and the response, lines 273-292.  user_sessions
\* has no unique index on user_id, so the store does not serialise the upserts of one
\* account: with no match the insert is a later step
OAuthUpsertSession(p) ==
    /\ req[p].pc = "oauth_session"
    /\ LET matched == { s \in sessions : s.user_id = req[p].user_id } IN
       IF matched = {}
       THEN /\ req' = [req EXCEPT ![p].pc = "oauth_insert"]
            /\ resp' = NoResponse
            /\ UNCHANGED sessions
            /\ UNCHANGED indexes
       ELSE /\ \E old \in matched :
                 LET failed == /\ resp' = OAuthFailed(req[p].request, req[p].at)
                               /\ UNCHANGED sessions
                     updated ==
                         /\ sessions' = UpdateSession(sessions, old, req[p].session_token,
                                                      req[p].expires_at)
                         /\ resp' = Response(req[p].request, req[p].at, 200, "success",
                                             Opaque(req[p].session_token), req[p].user_id)
                 IN  IF TokenIndexRejects(sessions \ {old}, req[p].session_token)
                     THEN \E made \in IndexOutcomes(TokenIndex) :
                             /\ indexes' = Narrowed(TokenIndex, made)
                             /\ IF made THEN failed ELSE updated
                     ELSE updated /\ UNCHANGED indexes
            /\ req' = [req EXCEPT ![p] = Idle]
    /\ UNCHANGED <<now, users, held, dollarFieldOk, tzAware, loggedOut, started>>

\* lines 261-292, the insert phase of the upsert, the cookie, the response
OAuthInsertSession(p) ==
    /\ req[p].pc = "oauth_insert"
    /\ LET failed == /\ resp' = OAuthFailed(req[p].request, req[p].at)
                     /\ UNCHANGED sessions
           inserted ==
               /\ sessions' = InsertSession(sessions, req[p].user_id, req[p].session_token,
                                            req[p].expires_at)
               /\ resp' = Response(req[p].request, req[p].at, 200, "success",
                                   Opaque(req[p].session_token), req[p].user_id)
       IN  IF TokenIndexRejects(sessions, req[p].session_token)
           THEN \E made \in IndexOutcomes(TokenIndex) :
                   /\ indexes' = Narrowed(TokenIndex, made)
                   /\ IF made THEN failed ELSE inserted
           ELSE inserted /\ UNCHANGED indexes
    /\ req' = [req EXCEPT ![p] = Idle]
    /\ UNCHANGED <<now, users, held, dollarFieldOk, tzAware, loggedOut, started>>

----------------------------------------------------------------------------
(* get_current_user, lines 123-161, behind GET /api/users/me, lines 459-464 *)

MeRequest(cookie, header) ==
    [NoRequest EXCEPT !.op = "me", !.cookie = cookie, !.header = header]

\* lines 462-463
Unauthenticated(request, at) ==
    Response(request, at, 401, "Authentication required", NoCred, NoId)

\* mutant of SessionLive: the expiry of a session is not looked at
SessionAlwaysLive(s, t) == TRUE

\* line 144
SessionLive(s, t) == s.expires_at > t

\* the datetimes the driver hands back: naive with the client built as in line 33
\* (AsyncIOMotorClient(mongo_url), tz_aware left to MONGO_URL's options), aware with
\* tz_aware set; one of the two for the whole run, fixed when first read
TzModes == IF tzAware = "unread" THEN {"naive", "aware"} ELSE {tzAware}

\* lines 131-152 for the request of handler p: the token (cookie first), the session
\* lookup, the comparison of line 144 (TypeError on a naive datetime, caught in line
\* 158), the JWT decode
Lookup(p, request, refusal, next) ==
    LET token == IF request.cookie # NoCred THEN request.cookie ELSE request.header
        found == { s \in sessions : Opaque(s.session_token) = token }
        viaJwt == jwt_decode(token, now)
        resolved(id) ==
            /\ req' = [req EXCEPT ![p] = [pc |-> next, request |-> request,
                                          at |-> now, user_id |-> id]]
            /\ resp' = NoResponse
        refused == resp' = refusal /\ UNCHANGED req
    IN  IF token = NoCred THEN refused /\ UNCHANGED tzAware
        ELSE IF found = {}
        THEN /\ IF viaJwt # NoId THEN resolved(viaJwt) ELSE refused
             /\ UNCHANGED tzAware
        ELSE \E z \in TzModes :
                /\ tzAware' = z
                /\ IF z = "naive" THEN refused
                   ELSE \E s \in found :
                           IF SessionLive(s, now) THEN resolved(s.user_id)
                           ELSE IF viaJwt # NoId THEN resolved(viaJwt)
                           ELSE refused

\* get_current_user behind GET /api/users/me
MeLookup(p, cookie, header) ==
    /\ Receive(p)
    /\ Lookup(p, MeRequest(cookie, header), Unauthenticated(MeRequest(cookie, header), now),
              "me_user")
    /\ UNCHANGED <<now, users, sessions, held, dollarFieldOk, indexes, loggedOut>>

\* lines 145-148 and 153-156: the account of the resolved identifier
MeUser(p) ==
    /\ req[p].pc = "me_user"
    /\ LET found == FindById(users, req[p].user_id) IN
       IF found = {}
       THEN resp' = Unauthenticated(req[p].request, req[p].at)
       ELSE resp' = Response(req[p].request, req[p].at, 200, "profile", NoCred,
                             req[p].user_id)
    /\ req' = [req EXCEPT ![p] = Idle]
    /\ UNCHANGED <<now, users, sessions, held, dollarFieldOk, tzAware, indexes, loggedOut, started>>

----------------------------------------------------------------------------
(* POST /api/auth/logout, lines 305-317 *)

LogoutRequest(cookie, header) ==
    [NoRequest EXCEPT !.op = "logout", !.cookie = cookie, !.header = header]

\* lines 308-309
NotAuthenticated(request, at) ==
    Response(request, at, 401, "Not authenticated", NoCred, NoId)

\* get_current_user behind POST /api/auth/logout
LogoutLookup(p, cookie, header) ==
    /\ Receive(p)
    /\ Lookup(p, LogoutRequest(cookie, header),
              NotAuthenticated(LogoutRequest(cookie, header), now), "logout_user")
    /\ UNCHANGED <<now, users, sessions, held, dollarFieldOk, indexes, loggedOut>>

\* lines 145-148 and 153-156, then lines 308-309
LogoutUser(p) ==
    /\ req[p].pc = "logout_user"
    /\ IF FindById(users, req[p].user_id) = {}
       THEN /\ resp' = NotAuthenticated(req[p].request, req[p].at)
            /\ req' = [req EXCEPT ![p] = Idle]
       ELSE /\ req' = [req EXCEPT ![p].pc = "logout_delete"]
            /\ resp' = NoResponse
    /\ UNCHANGED <<now, users, sessions, held, dollarFieldOk, tzAware, indexes, loggedOut, started>>

\* mutant of DeleteSessions: only one session record of the account is deleted
DeleteOneSession(coll, user_id) ==
    IF \E s \in coll : s.user_id = user_id
    THEN coll \ {CHOOSE s \in coll : s.user_id = user_id}
    ELSE coll

\* db.user_sessions.delete_many({"user_id": user.id}), line 312
DeleteSessions(coll, user_id) == { s \in coll : s.user_id # user_id }

\* mutant of LogoutDelete: the delete is sent to db.users
LogoutDeleteFromUsers(p) ==
    /\ req[p].pc = "logout_delete"
    /\ users' = { u \in users : u._id # req[p].user_id }
    /\ resp' = Response(req[p].request, req[p].at, 200, "Logged out successfully",
                        NoCred, req[p].user_id)
    /\ loggedOut' = loggedOut \cup {IF req[p].request.cookie # NoCred
                                     THEN req[p].request.cookie ELSE req[p].request.header}
    /\ req' = [req EXCEPT ![p] = Idle]
    /\ UNCHANGED <<now, sessions, held, dollarFieldOk, tzAware, indexes, started>>

\* lines 311-317
LogoutDelete(p) ==
    /\ req[p].pc = "logout_delete"
    /\ sessions' = DeleteSessions(sessions, req[p].user_id)
    /\ resp' = Response(req[p].request, req[p].at, 200, "Logged out successfully",
                        NoCred, req[p].user_id)
    /\ loggedOut' = loggedOut \cup {IF req[p].request.cookie # NoCred
                                     THEN req[p].request.cookie ELSE req[p].request.header}
    /\ req' = [req EXCEPT ![p] = Idle]
    /\ UNCHANGED <<now, users, held, dollarFieldOk, tzAware, indexes, started>>

----------------------------------------------------------------------------
(* POST /api/users/resend-verification: users_router, lines 319-464, has no such *)
(* route, and the application answers a path it does not route with 404         *)

ResendRequest(email) == [NoRequest EXCEPT !.op = "resend_verification", !.email = email]

ResendVerification(p, email) ==
    /\ Receive(p)
    /\ resp' = Response(ResendRequest(email), now, 404, "Not Found", NoCred, NoId)
    /\ UNCHANGED <<now, users, sessions, req, held, dollarFieldOk, tzAware, indexes, loggedOut>>

----------------------------------------------------------------------------
(* The clock and the system *)

\* the clock advances to a later one of instants, whatever the handlers are doing
TickTo(instants) ==
    /\ \E t \in instants : t > now /\ now' = t
    /\ resp' = NoResponse
    /\ UNCHANGED <<users, sessions, req, held, dollarFieldOk, tzAware, indexes, loggedOut, started>>

Tick == TickTo(Instants)

\* the TTL index on user_sessions.expires_at with expireAfterSeconds=0, where
\* startup_event made it: the store's monitor deletes, at some time of its own, the
\* sessions whose expires_at has passed
TtlSweep ==
    /\ \E s \in sessions : s.expires_at < now
    /\ TRUE \in IndexOutcomes(TtlIndex)
    /\ indexes' = Narrowed(TtlIndex, TRUE)
    /\ sessions' = { s \in sessions : s.expires_at >= now }
    /\ resp' = NoResponse
    /\ UNCHANGED <<now, users, req, held, dollarFieldOk, tzAware, loggedOut, started>>

\* what a request can carry: the cookie set by process_session, and in the
\* Authorization header a session token or the bearer token the client kept
Cookies == {NoCred} \cup { Opaque(s) : s \in SessionTokens }
Headers == Cookies \cup {held.token}

Init ==
    /\ now = 0
    /\ users = {}
    /\ sessions = {}
    /\ req = [p \in Procs |-> Idle]
    /\ resp = NoResponse
    /\ held = [token |-> NoCred, iat |-> NoTime]
    /\ dollarFieldOk \in BOOLEAN
    /\ tzAware = "unread"
    /\ indexes = 0..TtlIndex
    /\ loggedOut = {}
    /\ started = 0

\* a step of handler p in the password flow
PasswordStep(p) ==
    \/ \E e \in Registrants, pw \in Passwords : RegisterCheck(p, e, pw)
    \/ RegisterInsert(p)
    \/ \E e \in Emails, c \in Codes : VerifyFind(p, e, c)
    \/ VerifyUpdate(p)
    \/ \E e \in Emails, pw \in LoginPasswords : Login(p, e, pw)

\* a step of handler p in the session exchange, the provider answering from answers
ExchangeStepOn(p, answers) ==
    \/ OAuthFetch(p, "", NotAsked)
    \/ \E a \in answers : OAuthFetch(p, "sid", a)
    \/ OAuthUpsertUser(p)
    \/ OAuthUpsertSession(p)
    \/ OAuthInsertSession(p)

ExchangeStep(p) == ExchangeStepOn(p, ProviderAnswers)

\* the provider's answers about one external identity
OneIdentity == { a \in ProviderAnswers : a.status = 200 => a.id = 1 /\ a.email = "a@example.com" }

\* the provider's answers about one external identity and one of its sessions, the
\* email and the name changing from one answer to the next, the name null in one
Renamed ==
    { a \in AnswersNamed(Names) :
        a.status = 200 => a.id = 1 /\ a.session_token = "st1" } \cup
    { [status |-> 200, id |-> 1, email |-> "a@example.com", named |-> FALSE,
       name |-> NoName, session_token |-> "st1"] }

\* the provider's answers when every session it has carries one token
OneToken == { a \in ProviderAnswers : a.status = 200 => a.session_token = "st1" }

\* the provider's answers about one external identity and one of its sessions
OneSession == OneIdentity \cap OneToken

\* a step of handler p in GET /api/users/me, the request's cookie and header drawn
\* from cookies and headers
MeStepWith(p, cookies, headers) ==
    \/ \E c \in cookies, h \in headers : MeLookup(p, c, h)
    \/ MeUser(p)

MeStep(p) == MeStepWith(p, Cookies, Headers)

\* a step of handler p in POST /api/auth/logout
LogoutStepWith(p, cookies, headers) ==
    \/ \E c \in cookies, h \in headers : LogoutLookup(p, c, h)
    \/ LogoutUser(p)
    \/ LogoutDelete(p)

LogoutStep(p) == LogoutStepWith(p, Cookies, Headers)

\* a request handled by handler p
Handle(p) ==
    \/ PasswordStep(p)
    \/ ExchangeStep(p)
    \/ MeStep(p)
    \/ LogoutStep(p)
    \/ \E e \in Emails : ResendVerification(p, e)

Next == Tick \/ TtlSweep \/ \E p \in Procs : Handle(p)

\* the whole system: concurrent handlers under a running clock
Spec == Init /\ [][Next]_vars

\* the password flow, one request at a time, under a running clock
NextClock ==
    \/ Tick
    \/ PasswordStep("h1")
    \/ MeStep("h1")
    \/ \E e \in Emails : ResendVerification("h1", e)

SpecClock == Init /\ [][NextClock]_vars

\* registration and verification, concurrent handlers, under a running clock
NextExpiry ==
    \/ TickTo(CodeInstants)
    \/ \E p \in Procs :
          \/ \E e \in Registrants, pw \in Passwords : RegisterCheck(p, e, pw)
          \/ RegisterInsert(p)
          \/ \E e \in Registrants, c \in Codes : VerifyFind(p, e, c)
          \/ VerifyUpdate(p)

SpecExpiry == Init /\ [][NextExpiry]_vars

\* registration, verification, login, exchange and resolution, concurrent handlers,
\* at one clock value
NextRace == \E p \in Procs : PasswordStep(p) \/ ExchangeStepOn(p, OneToken) \/ MeStep(p)

SpecRace == Init /\ [][NextRace]_vars

\* the session exchange, resolution and logout for one external identity and one
\* session token carried in the cookie, concurrent handlers, under a running clock and
\* the store's TTL monitor
NextSession ==
    \/ TickTo(SessionInstants)
    \/ TtlSweep
    \/ \E p \in Procs :
          \/ ExchangeStepOn(p, OneSession)
          \/ MeStepWith(p, Cookies, {NoCred})
          \/ LogoutStepWith(p, Cookies, {NoCred})

SpecSession == Init /\ [][NextSession]_vars

\* the session exchange, resolution and logout, concurrent handlers, at one clock
\* value
NextExchange == \E p \in Procs : ExchangeStep(p) \/ MeStep(p) \/ LogoutStep(p)

SpecExchange == Init /\ [][NextExchange]_vars

\* a state the password flow reaches (register, then verify_email at the same clock
\* value, the store accepting the update): one verified password account, whose
\* bearer token the client holds
InitLogout ==
    /\ now = 0
    /\ \E code \in Codes :
          users = { VerifiedUpdate(NewUserDoc(<<"email", 1>>, "a@example.com",
                                              "password123", code, 0)) }
    /\ sessions = {}
    /\ req = [p \in Procs |-> Idle]
    /\ resp = NoResponse
    /\ held = [token |-> create_jwt_token(<<"email", 1>>, 0), iat |-> 0]
    /\ dollarFieldOk = TRUE
    /\ tzAware = "unread"
    /\ indexes = 0..TtlIndex
    /\ loggedOut = {}
    /\ started = 0

\* login, resolution and logout of a verified password account, one request at a
\* time, under a running clock
NextLogout ==
    \/ Tick
    \/ \E e \in Emails, pw \in LoginPasswords : Login("h1", e, pw)
    \/ MeStep("h1")
    \/ LogoutStep("h1")

SpecLogout == InitLogout /\ [][NextLogout]_vars

\* the session exchange for one external identity under changing provider data,
\* concurrent handlers, under a running clock
NextProfile ==
    \/ TickTo(Weeks)
    \/ \E p \in Procs : ExchangeStepOn(p, Renamed)

SpecProfile == Init /\ [][NextProfile]_vars

----------------------------------------------------------------------------
(* Properties *)

AccountOf(email) == { u \in users : u.email = email }

\* the request a response answers carried the code stored for its email, and the
\* handler read the store before that code's expiry
LiveCodeSubmitted(r) ==
    /\ r.request.op = "verify_email"
    /\ \E u \in users : VerifyFilter(u, r.request.email, r.request.code, r.at)

SixDigits(code) == Len(code) = CodeLen /\ \A i \in 1..Len(code) : code[i] \in 0..9

\* C1: verify_email with the stored code, submitted before its expiry, sets
\* email_verified and returns success with a bearer token, and login with the
\* correct password then returns a token
C1_VerifyGrantsToken ==
    LiveCodeSubmitted(resp) =>
        /\ resp.status = 200
        /\ resp.token.kind = "jwt"
        /\ \A u \in AccountOf(resp.request.email) :
              /\ u.email_verified
              /\ LoginResponse({u}, u.email, u.password.pw, now).status = 200
              /\ LoginResponse({u}, u.email, u.password.pw, now).token.kind = "jwt"

\* C2: a verification code is single-use: a verify_email that succeeds leaves the
\* code no longer stored for the account, and no verify_email succeeds for an
\* account that an earlier one has verified
C2_CodeSingleUse ==
    [][ (resp'.request.op = "verify_email" /\ resp'.status = 200) =>
            /\ \A u \in users' : u.email = resp'.request.email =>
                                    u.verification_code # resp'.request.code
            /\ \A u \in users : u.email = resp'.request.email => ~u.email_verified
      ]_vars

\* C3: verify_email with the stored code at a clock value after the code's expiry
\* (after the expiry of every record that stores the code for the email) returns the
\* invalid-or-expired outcome with no token, and changes no account
C3_ExpiredCodeRejected ==
    [][ LET stored == { u \in users : /\ u.email = resp'.request.email
                                      /\ u.verification_code = resp'.request.code }
        IN  ( /\ resp'.request.op = "verify_email"
              /\ stored # {}
              /\ \A u \in stored : resp'.at > u.verification_code_expires )
            => /\ resp'.status = 400
               /\ resp'.detail = "Invalid or expired verification code"
               /\ resp'.token = NoCred
               /\ users' = users
      ]_vars

C3_Witness ==
    /\ resp.request.op = "verify_email"
    /\ resp.status = 400
    /\ \E u \in users : /\ u.email = resp.request.email
                        /\ u.verification_code = resp.request.code
                        /\ ~u.email_verified
                        /\ resp.at > u.verification_code_expires

\* C4: a successful register leaves a 6-digit code stored for the email; while no
\* verify_email for the email has succeeded (every record of the email is unverified)
\* login with the correct password fails with "Please verify your email first" and no
\* token; and only a successful verify_email for that email verifies a record
C4_HeldUntilVerified ==
    [][ /\ (resp'.request.op = "register" /\ resp'.status = 200) =>
               \E u \in users' : /\ u.email = resp'.request.email
                                 /\ u._id = resp'.user_id
                                 /\ SixDigits(u.verification_code)
                                 /\ ~u.email_verified
        /\ ( /\ resp'.request.op = "login"
             /\ AccountOf(resp'.request.email) # {}
             /\ \A u \in AccountOf(resp'.request.email) :
                   /\ verify_password(resp'.request.password, u.password)
                   /\ ~u.email_verified )
           => /\ resp'.status = 400
              /\ resp'.detail = "Please verify your email first"
              /\ resp'.token = NoCred
        /\ \A u \in users :
              (~u.email_verified /\ \E v \in users' : v._id = u._id /\ v.email_verified)
              => /\ resp'.request.op = "verify_email"
                 /\ resp'.status = 200
                 /\ resp'.request.email = u.email
      ]_vars

C4_Witness ==
    /\ resp.request.op = "login"
    /\ resp.status = 400
    /\ \E u \in users : /\ u.email = resp.request.email
                        /\ verify_password(resp.request.password, u.password)
                        /\ SixDigits(u.verification_code)
                        /\ ~u.email_verified

\* C5: of two concurrent register calls for one email with valid passwords, one
\* succeeds and the other returns the duplicate-email outcome: a register with a
\* valid password either succeeds or answers 400 "Email already registered"
C5_LoserGetsConflict ==
    ( /\ resp.request.op = "register"
      /\ Len(resp.request.password) >= MinPasswordLen
      /\ resp.status # 200 )
    => /\ resp.status = 400
       /\ resp.detail = "Email already registered"

\* the three cases of a login that the caller must not tell apart: no record of the
\* email, or every record of it of another provider or with another password
LoginMustFail(email, password) ==
    \A u \in AccountOf(email) :
       \/ u.auth_provider # "email"
       \/ u.auth_provider = "email" /\ ~verify_password(password, u.password)

\* C6: login answers 401 "Invalid credentials", with no token and no account
\* identifier, alike when the account is absent, is of another provider, or the
\* password does not match; and no login changes the store
C6_LoginFailuresAlike ==
    [][ resp'.request.op = "login" =>
            /\ users' = users /\ sessions' = sessions
            /\ LoginMustFail(resp'.request.email, resp'.request.password) =>
                  /\ resp'.status = 401
                  /\ resp'.detail = "Invalid credentials"
                  /\ resp'.token = NoCred
                  /\ resp'.user_id = NoId
      ]_vars

C6_Witness ==
    /\ resp.request.op = "login"
    /\ resp.status = 401
    /\ \E u \in AccountOf(resp.request.email) : u.auth_provider = "google"
    /\ \E u \in users : u.auth_provider = "email"

\* C7: register returns no token, and every token a response carries belongs to an
\* account whose email_verified is true in the store when the response is returned
C7_TokenOnlyIfVerified ==
    /\ resp.request.op = "register" => resp.token = NoCred
    /\ resp.token # NoCred =>
          \E u \in users : u._id = resp.user_id /\ u.email_verified
    /\ resp.token.kind = "jwt" =>
          \E u \in users : u._id = resp.token.user_id /\ u.email_verified

C7_Witness ==
    /\ resp.request.op = "verify_email"
    /\ resp.token.kind = "jwt"
    /\ \E u \in users : u._id = resp.token.user_id /\ u.email_verified

\* C8: no two account records share an email, whatever their providers, and a
\* record keeps its identifier, email, provider and password hash: an OAuth exchange
\* and a registration never turn into one record.  The first part fails where
\* startup_event has not made the index on users.email
C8_EmailUnique ==
    [][ /\ \A u, v \in users' : u.email = v.email => u = v
        /\ \A u \in users : \E v \in users' :
              /\ v._id = u._id /\ v.email = u.email
              /\ v.auth_provider = u.auth_provider /\ v.password = u.password
      ]_vars

\* a request for the profile that carries only the bearer token the client holds
BearerOnly(r) ==
    /\ r.request.op = "me"
    /\ r.request.cookie = NoCred
    /\ r.request.header.kind = "jwt"
    /\ r.request.header = held.token

\* C9 as stated: a token made at t resolves to its account at every clock value
\* before t + 7 days and is refused at every clock value after t + 7 days
C9_RoundTripToTheTick ==
    BearerOnly(resp) =>
        /\ resp.at < held.iat + TokenTTL =>
              resp.status = 200 /\ resp.user_id = held.token.user_id
        /\ resp.at > held.iat + TokenTTL => resp.status = 401

\* C9 amended: the token's expiry is t + 7 days truncated to whole seconds; the
\* token resolves to its account at every clock value before that expiry and is
\* refused at every clock value from it on, so at every clock value after t + 7 days
C9_RoundTripToTheSecond ==
    BearerOnly(resp) =>
        LET expiry == ((held.iat + TokenTTL) \div TicksPerSecond) * TicksPerSecond IN
        /\ resp.at < expiry =>
              resp.status = 200 /\ resp.user_id = held.token.user_id
        /\ resp.at >= expiry => resp.status = 401
        /\ resp.at > held.iat + TokenTTL => resp.status = 401

C9_Witness ==
    /\ BearerOnly(resp)
    /\ resp.status = 401
    /\ resp.at < held.iat + TokenTTL

\* C10: an OAuth exchange for an external identity whose account exists adds no
\* account record, and every successful exchange returns the one account whose
\* identifier is made of that identity
C10_ExchangeUpserts ==
    [][ /\ \A u, v \in users' : u._id = v._id => u = v
        /\ (resp'.request.op = "oauth_exchange" /\ resp'.status = 200) =>
              /\ resp'.user_id = <<"google", resp'.request.subject>>
              /\ \E u \in users' : u._id = resp'.user_id
        /\ \A p \in Procs :
              (req[p].pc = "oauth_user" /\ FindById(users, req[p].doc._id) # {}
               /\ req'[p] # req[p]) => users' = users
      ]_vars

C10_Witness ==
    /\ resp.request.op = "oauth_exchange"
    /\ resp.status = 200
    /\ \E u \in users : u._id = resp.user_id /\ u.email # resp.request.email

\* C11: resend_verification for an email with no unverified account fails with not
\* found; for an email with an unverified account it succeeds and leaves that
\* account with a code whose expiry is one hour after the call
C11_ResendReissues ==
    [][ resp'.request.op = "resend_verification" =>
          IF \E u \in users : u.email = resp'.request.email /\ ~u.email_verified
          THEN /\ resp'.status = 200
               /\ \A u \in users' : u.email = resp'.request.email =>
                     u.verification_code_expires = resp'.at + CodeTTL
          ELSE resp'.status = 404
      ]_vars

\* the token get_current_user takes from a request: the cookie, else the header
Presented(request) == IF request.cookie # NoCred THEN request.cookie ELSE request.header

\* the sessions of coll whose token a request presents
SessionsOf(coll, request) == { s \in coll : Opaque(s.session_token) = Presented(request) }

\* C12: a logout that presents the token of a stored, unexpired session of an
\* existing account succeeds and leaves no session record of that account; and a
\* session token with no record in the store resolves to unauthenticated
C12_LogoutEndsSession ==
    [][ /\ ( /\ resp'.request.op = "logout"
             /\ \E s \in SessionsOf(sessions, resp'.request) :
                   s.expires_at > resp'.at /\ FindById(users, s.user_id) # {} )
           => /\ resp'.status = 200
              /\ \A s \in SessionsOf(sessions, resp'.request) :
                    \A x \in sessions' : x.user_id # s.user_id
        /\ ( /\ resp'.request.op \in {"me", "logout"}
             /\ Presented(resp'.request).kind = "opaque"
             /\ SessionsOf(sessions, resp'.request) = {} )
           => resp'.status = 401
      ]_vars

\* C13 as stated: a request that presents the token of a session in the store whose
\* expires_at is not later than the clock is answered unauthenticated, with no
\* account, the record and the clock being those of the moment of the answer
C13_ExpiredSessionRefused ==
    ( /\ resp.request.op \in {"me", "logout"}
      /\ \E s \in SessionsOf(sessions, resp.request) : s.expires_at <= resp.at )
    => /\ resp.status = 401
       /\ resp.user_id = NoId

\* the request whose credential handler p resolves in this step, if it does
Resolving(p) == IF req'[p] # Idle THEN req'[p].request ELSE resp'.request

\* C13 amended: the expiry is judged when get_current_user reads the session record
\* (line 144).  A request whose session token has records in the store, none with
\* expires_at later than the clock at that read, is answered unauthenticated with no
\* account; a session token resolves only through a record whose expires_at is then
\* later than the clock, to that record's account; and every 200 of a request that
\* presents a session token comes from a handler that resolved it so
C13_ExpiredRefusedAtRead ==
    [][ /\ \A p \in Procs :
              ( /\ req[p] = Idle /\ started' # started
                /\ Resolving(p).op \in {"me", "logout"}
                /\ SessionsOf(sessions, Resolving(p)) # {}
                /\ \A s \in SessionsOf(sessions, Resolving(p)) : s.expires_at <= now )
              => /\ req'[p] = Idle
                 /\ resp'.status = 401
                 /\ resp'.user_id = NoId
        /\ \A p \in Procs :
              ( /\ req[p] = Idle /\ req'[p] # Idle
                /\ req'[p].request.op \in {"me", "logout"}
                /\ Presented(req'[p].request).kind = "opaque" )
              => \E s \in SessionsOf(sessions, req'[p].request) :
                    s.expires_at > now /\ s.user_id = req'[p].user_id
        /\ ( /\ resp'.request.op \in {"me", "logout"}
             /\ Presented(resp'.request).kind = "opaque"
             /\ resp'.status = 200 )
           => \E p \in Procs : /\ req[p] # Idle /\ req'[p] = Idle
                                /\ req[p].request = resp'.request
                                /\ req[p].user_id = resp'.user_id
      ]_vars

C13_Witness ==
    /\ resp.request.op = "me"
    /\ resp.status = 401
    /\ tzAware = "aware"
    /\ \E s \in SessionsOf(sessions, resp.request) :
          s.expires_at = resp.at /\ FindById(users, s.user_id) # {}

\* C14: an exchange with no session id is answered 400 and one whose session the
\* provider rejects is answered 401, neither with the generic 500, and neither
\* creates or changes an account or a session record
C14_RejectionsSpecific ==
    [][ ( /\ resp'.request.op = "oauth_exchange"
          /\ (resp'.request.session_id = "" \/ resp'.request.subject = 0) )
        => /\ resp'.status = IF resp'.request.session_id = "" THEN 400 ELSE 401
           /\ users' = users
           /\ sessions' = sessions
      ]_vars

PasswordAccount(u) == u.auth_provider = "email" /\ u.password # NoHash

OAuthAccount(u) ==
    /\ u.auth_provider = "google"
    /\ u.email_verified
    /\ u.password = NoHash
    /\ u.verification_code = NoCode
    /\ u.verification_code_expires = NoTime

\* C15: every account is of exactly one kind, a password account (provider email,
\* with a password hash, unverified and with a 6-digit code when created) or an OAuth
\* account (verified, without password hash and without verification code); and a
\* login with an email whose records are OAuth accounts is answered 401 "Invalid
\* credentials"
C15_AccountKinds ==
    [][ /\ \A u \in users' : PasswordAccount(u) # OAuthAccount(u)
        /\ \A u \in users' :
              (PasswordAccount(u) /\ FindById(users, u._id) = {}) =>
                  ~u.email_verified /\ SixDigits(u.verification_code)
        /\ ( /\ resp'.request.op = "login"
             /\ AccountOf(resp'.request.email) # {}
             /\ \A u \in AccountOf(resp'.request.email) : u.auth_provider = "google" )
           => /\ resp'.status = 401
              /\ resp'.detail = "Invalid credentials"
      ]_vars

C15_Witness ==
    /\ resp.request.op = "login"
    /\ resp.request.password = "password123"
    /\ resp.status = 401
    /\ \E u \in AccountOf(resp.request.email) : OAuthAccount(u)
    /\ \E u \in users : PasswordAccount(u) /\ u.password = hash_password("password123")

\* C16: of two concurrent verify_email calls with the same stored, unexpired code, at
\* most one is answered verified: when one has been, the other, which looked the code
\* up before, is answered "Invalid or expired verification code"
C16_OneVerifyWins ==
    [][ \A q \in Procs :
          ( /\ resp.request.op = "verify_email"
            /\ resp.status = 200
            /\ req[q].pc = "verify_update"
            /\ req[q].request = resp.request
            /\ req'[q] = Idle )
          => /\ resp'.status = 400
             /\ resp'.detail = "Invalid or expired verification code"
      ]_vars

\* C17: a code's expiry is its issue time plus one hour; verify_email with the
\* stored code is not rejected as expired at any clock value up to and including
\* the expiry, and is rejected at every clock value after it
C17_ExpiryInclusive ==
    /\ \A u \in users :
          PasswordAccount(u) => u.verification_code_expires = u.created_at + CodeTTL
    /\ resp.request.op = "verify_email" =>
          \A u \in users :
             (u.email = resp.request.email /\ u.verification_code = resp.request.code) =>
                 /\ resp.at <= u.verification_code_expires => resp.status # 400
                 /\ resp.at > u.verification_code_expires => resp.status = 400

\* a step of a logout request
LogoutStepTaken ==
    \/ resp'.request.op = "logout"
    \/ \E p \in Procs : req'[p] # req[p] /\ req'[p].pc \in {"logout_user", "logout_delete"}

\* C18: no step of a logout changes an account record, and a request that carries
\* only a bearer token before its expiry resolves to the token's account, whatever
\* logouts have succeeded before
C18_LogoutFrame ==
    [][ /\ LogoutStepTaken => users' = users
        /\ (BearerOnly(resp') /\ resp'.at < resp'.request.header.exp) =>
              /\ resp'.status = 200
              /\ resp'.user_id = resp'.request.header.user_id
      ]_vars

C18_Witness ==
    /\ BearerOnly(resp)
    /\ resp.status = 200
    /\ resp.request.header \in loggedOut
    /\ resp.at > 0

\* C19: a request with a bearer token in the Authorization header that has not
\* expired, of an existing account, resolves to that account whatever cookie comes
\* with it
C19_BearerWins ==
    ( /\ resp.request.op = "me"
      /\ resp.request.header.kind = "jwt"
      /\ resp.request.header = held.token
      /\ resp.at < resp.request.header.exp
      /\ FindById(users, resp.request.header.user_id) # {} )
    => /\ resp.status = 200
       /\ resp.user_id = resp.request.header.user_id

\* C20: no account has two session records, and after a successful exchange the
\* account's only session record carries the token of that exchange, so that no
\* other token resolves for the account
C20_OneSessionPerAccount ==
    [][ /\ \A s, t \in sessions' : s.user_id = t.user_id => s = t
        /\ (resp'.request.op = "oauth_exchange" /\ resp'.status = 200) =>
              \A s \in sessions' :
                 s.user_id = resp'.user_id => Opaque(s.session_token) = resp'.token
      ]_vars

\* C21: an exchange leaves every account record that exists as it is, field for
\* field, whatever email and name the provider asserts now: a step of an exchange
\* adds at most a record for an identity that had none, and where the identity's
\* account exists only the session records change
C21_ExchangeKeepsProfile ==
    [][ /\ \A u \in users : u \in users'
        /\ \A v \in users' : v \in users \/ FindById(users, v._id) = {}
        /\ \A p \in Procs :
              ( /\ req[p].pc \in {"oauth_user", "oauth_session", "oauth_insert"}
                /\ FindById(users, <<"google", req[p].request.subject>>) # {}
                /\ req'[p] # req[p] )
              => users' = users
      ]_vars

C21_Witness ==
    /\ resp.request.op = "oauth_exchange"
    /\ resp.status = 200
    /\ \E u \in users :
          /\ u._id = resp.user_id
          /\ u.email # resp.request.email
          /\ u.display_name # resp.request.name
          /\ u.first_name # FirstName(resp.request.name)
          /\ u.created_at < resp.at
          /\ u.email_verified /\ ~u.is_premium /\ u.subscription_plan = "free"
    /\ \E s \in sessions : s.user_id = resp.user_id /\ Opaque(s.session_token) = resp.token

====
